---- MODULE Spec2Model ----
(***************************************************************************)
(* The CHC safety checker `verify(source, dialect, timeout, learn)` in its *)
(* two variants:                                                           *)
(*   task_colab-94/main.py : regex Datalog heuristic + z3.Solver           *)
(*   task_colab-92/main.py : _InferenceCache + z3.Fixedpoint               *)
(* A text is a sequence of symbols; every symbol stands for the string it  *)
(* spells, and a text for the concatenation of its symbols.  The solver    *)
(* library is an oracle: parse succeeds or raises, the check is ternary,   *)
(* the answer is a text.                                                   *)
(* Every record constructor lists its fields in the order in which the     *)
(* field names first occur in this module, so that all records of a shape  *)
(* are built with one field order.                                         *)
(***************************************************************************)
EXTENDS Integers, Sequences, FiniteSets, TLC

\* verify: the last call, its result, what it reached, the cache entries.
VARIABLES call, outcome, consulted, cache, before

verifyVars == <<call, outcome, consulted, cache, before>>

\* WeatherData: the object's fields (observers is the heap of entry
\* references, ent the entry objects by token), the liveness of the
\* weakly held observers, the threads inside the object's methods, and the
\* history of callback invocations.
VARIABLES observers, ent, paused, metrics, log, data, dead, th, calls,
          sets, dropped

weatherVars ==
    <<observers, ent, paused, metrics, log, data, dead, th, calls, sets,
      dropped>>

\* RBAC: the module's _access_rules_data, the last call made with its
\* result, and the configuration of the most recent load that returned.
VARIABLES access_rules_data, last, inForce

rbacVars == <<access_rules_data, last, inForce>>

\* max_active_students: the arguments of the call and what it returned.
VARIABLES args, returned

studentVars == <<args, returned>>

\* process_csv_pipeline: the arguments of the call and its outcome.
VARIABLES job, piped

pipelineVars == <<job, piped>>

\* rowWiseMax: the tree passed and the map returned.
VARIABLES root, got

treeVars == <<root, got>>

vars ==
    <<verifyVars, weatherVars, rbacVars, studentVars, pipelineVars,
      treeVars>>

(* ------------------------------ bounds --------------------------------- *)

\* Longest sequence of (query NAME) forms in a generated Datalog program.
MaxQueries == 2

\* WeatherData: subscriptions, set_measurements calls and pauses (and
\* resumes) made on the object.
MaxSubs == 2

MaxSets == 2

MaxPauses == 1

\* WeatherData: subscriptions made on an object that is paused and resumed
\* or that two threads use.
MaxShared == 1

\* RBAC: roles of a configuration.
MaxRoles == 2

\* max_active_students: the latest time, the intervals of a student, the
\* prerequisites listed in dependencies, and the query times.
MaxTime == 1

MaxIntervals == 2

MaxDeps == 2

MaxTimes == 2

\* process_csv_pipeline: the length of the operations list.
MaxOps == 3

\* rowWiseMax: the nodes of a tree.
MaxNodes == 4

(* ------------------------------ texts ---------------------------------- *)

\* Python's None for the optional model text.
None == [some |-> FALSE, text |-> <<>>]

Some(t) == [some |-> TRUE, text |-> t]

\* str.isspace on one symbol.
IsSpace(c) == c \in {" ", "\n"}

\* The character class [A-Za-z0-9_!?\-+*/<>=] of the three patterns: these
\* symbols spell strings made of such characters only ("." is none of them).
NameCh(c) == c \in {"P", "Q", "declare-rel", "rule", "query", "=>"}

\* str.strip() leaves nothing: the text is empty or whitespace-only.
StripIsEmptyOnlyEmpty(text) == text = <<>>

StripIsEmpty(text) == \A i \in 1..Len(text) : IsSpace(text[i])

\* First position >= i that holds no whitespace (Len+1 when there is none).
RECURSIVE SkipWs(_, _)
SkipWs(text, i) ==
    IF i <= Len(text) /\ IsSpace(text[i]) THEN SkipWs(text, i + 1) ELSE i

\* First position >= i that holds no name character: the greedy [...]+ .
RECURSIVE NameEnd(_, _)
NameEnd(text, i) ==
    IF i <= Len(text) /\ NameCh(text[i]) THEN NameEnd(text, i + 1) ELSE i

\* \(\s*KW\s+ tried at position i, j being the position after the \s* :
\* the position after the \s+, or 0 when there is no match.
AfterKeywordAt(text, i, kw, j) ==
    IF /\ text[i] = "("
       /\ j <= Len(text)
       /\ text[j] = kw
       /\ j + 1 <= Len(text)
       /\ IsSpace(text[j + 1])
    THEN SkipWs(text, j + 1)
    ELSE 0

AfterKeyword(text, i, kw) == AfterKeywordAt(text, i, kw, SkipWs(text, i + 1))

\* The \(?\s* of _RULE_RE, from position k (0: no match so far).
SkipParen(text, k, kw) ==
    IF kw = "rule" /\ k # 0 /\ k <= Len(text) /\ text[k] = "("
    THEN SkipWs(text, k + 1)
    ELSE k

\* The group ([A-Za-z0-9_!?\-+*/<>=]+) needs a name character at g.
NameStart(text, g) ==
    IF g # 0 /\ g <= Len(text) /\ NameCh(text[g]) THEN g ELSE 0

\* Where the captured group starts for a match tried at i, or 0.
\*   _DCL_RE   \(\s*declare-rel\s+(NAME)
\*   _RULE_RE  \(\s*rule\s+\(?\s*(NAME)
\*   _QUERY_RE \(\s*query\s+(NAME)
GroupStart(text, i, kw) ==
    NameStart(text, SkipParen(text, AfterKeyword(text, i, kw), kw))

\* re.findall: the captured groups of the non-overlapping matches, left to
\* right, the scan resuming where the previous match ended.
RECURSIVE FindAllFrom(_, _, _)
Captured(text, g, e, kw) ==
    <<SubSeq(text, g, e - 1)>> \o FindAllFrom(text, e, kw)

Scanned(text, i, kw, g) ==
    IF g = 0 THEN FindAllFrom(text, i + 1, kw)
    ELSE Captured(text, g, NameEnd(text, g), kw)

FindAllFrom(text, i, kw) ==
    IF i > Len(text) THEN <<>>
    ELSE Scanned(text, i, kw, GroupStart(text, i, kw))

FindAll(text, kw) == FindAllFrom(text, 1, kw)

Range(s) == {s[i] : i \in 1..Len(s)}

\* t occurs in s as a contiguous piece (Python's `t in s` on strings).
Contains(s, t) ==
    \E i \in 0..(Len(s) - Len(t)) : SubSeq(s, i + 1, i + Len(t)) = t

(* ------------------------- result records ------------------------------ *)

Return(status, model, learned) ==
    [status |-> status, model |-> model, learned |-> learned, exc |-> "",
     kind |-> "return"]

Raise(exc) ==
    [status |-> "", model |-> None, learned |-> <<>>, exc |-> exc,
     kind |-> "raise"]

\* {"status": "unknown", "model": None, "learned": []}
Unknown == Return("unknown", None, <<>>)

\* Before the first call there is no outcome.
NoOutcome ==
    [status |-> "", model |-> None, learned |-> <<>>, exc |-> "",
     kind |-> "none"]

(* ------------------- the Datalog heuristic (colab-94) ------------------ *)

\* f"(define-fun {preds} () Bool true)"
ModelText(preds) == <<"(define-fun ">> \o preds \o <<" () Bool true)">>

\* preds = queries[0]
Target(queries) == queries[1]

\* preds not in decls
NotDeclared(preds, decls) == preds \notin decls

\* preds in rules
HasRule(preds, rules) == preds \in rules

\* The heuristic's return value: None (isNone) or a result dict.
NoVerdict ==
    [status |-> "", model |-> None, learned |-> <<>>, isNone |-> TRUE]

Verdict(status, model, learned) ==
    [status |-> status, model |-> model, learned |-> learned, isNone |-> FALSE]

\* The three returns that follow preds = queries[0].
Classify(preds, decls, rules) ==
    IF NotDeclared(preds, decls) THEN NoVerdict
    ELSE IF HasRule(preds, rules)
         THEN Verdict("unsafe", Some(ModelText(preds)), <<ModelText(preds)>>)
         ELSE Verdict("safe", None, <<>>)

\* if not decls or not queries: return None
Extracted(decls, rules, queries) ==
    IF decls = {} \/ queries = <<>> THEN NoVerdict
    ELSE Classify(Target(queries), decls, rules)

\* _datalog_status(text)
DatalogStatus(text) ==
    Extracted(Range(FindAll(text, "declare-rel")),
              Range(FindAll(text, "rule")),
              FindAll(text, "query"))

(* ----------------------------- text loader ----------------------------- *)

\* The files of the environment.  A source that names none of them is
\* literal text.
BlankFile == <<"blank.smt2">>

LockedFile == <<"locked.dl">>

FactFile == <<"fact.dl">>

FactFileText ==
    <<"(", "declare-rel", " ", "P", " ", "(", ")", ")", "\n",
      "(", "rule", " ", "(", "P", ")", ")", "\n",
      "(", "query", " ", "P", ")", "\n">>

\* os.path.isfile(src)
IsFile(src) == src \in {BlankFile, LockedFile, FactFile}

\* open(src, "r", encoding="utf-8").read(): OSError for the locked file.
OpenRaises(src) == src = LockedFile

FileText(src) ==
    IF src = FactFile THEN FactFileText ELSE <<" ", "\n">>

\* _read_text / _read_source: [raised, text].
ReadText(src) ==
    IF ~IsFile(src) THEN [text |-> src, raised |-> FALSE]
    ELSE IF OpenRaises(src) THEN [text |-> <<>>, raised |-> TRUE]
    ELSE [text |-> FileText(src), raised |-> FALSE]

(* ------------------------- argument validation ------------------------- *)

\* (`timeout < 0` in place of `timeout <= 0`)
TimeoutRejectedStrict(timeout) == timeout < 0

\* timeout <= 0
TimeoutRejected(timeout) == timeout <= 0

\* (the comparison made case-insensitive)
DialectRejectedAnyCase(dialect) ==
    dialect \notin {"datalog", "smtlib2", "Datalog"}

\* dialect not in {"datalog", "smtlib2"}
DialectRejected(dialect) == dialect \notin {"datalog", "smtlib2"}

(* ------------------------------ the solver ----------------------------- *)

\* What the solver library does during one call: from_string raises
\* Z3Exception or parses; check()/query() is unsat, sat or unknown; the
\* answer is the text of model().sexpr() / str(get_answer()).
Answers == {<<>>, <<"(define-fun x () Int 0)">>}

Oracles ==
    {[answer |-> <<>>, chk |-> "unknown", parse |-> "Z3Exception"]}
    \cup {[answer |-> <<>>, chk |-> c, parse |-> "ok"] :
              c \in {"unsat", "unknown"}}
    \cup {[answer |-> a, chk |-> "sat", parse |-> "ok"] : a \in Answers}

\* The solver was not reached.
Idle == [answer |-> <<>>, chk |-> "idle", parse |-> "idle"]

\* (the model text learned whatever learn is)
LearnedOfAlways(learn, mdl_sexpr) == <<mdl_sexpr>>

\* learned = [mdl_sexpr] if learn else []
LearnedOf(learn, mdl_sexpr) == IF learn THEN <<mdl_sexpr>> ELSE <<>>

\* (sat and unsat exchanged)
SolverResult94Swapped(o, learn) ==
    IF o.chk = "sat" THEN Return("safe", None, <<>>)
    ELSE IF o.chk = "unsat"
         THEN Return("unsafe", Some(o.answer), LearnedOf(learn, o.answer))
         ELSE Unknown

\* colab-94: chk = solver.check() and the three returns that follow it.
SolverResult94(o, learn) ==
    IF o.chk = "unsat" THEN Return("safe", None, <<>>)
    ELSE IF o.chk = "sat"
         THEN Return("unsafe", Some(o.answer), LearnedOf(learn, o.answer))
         ELSE Unknown

(* --------------------------- verify, colab-94 --------------------------- *)

\* (the heuristic's learned list returned as it is)
DatalogResultKeepLearned(res, learn) ==
    Return(res.status, res.model, res.learned)

\* if not learn: datalog_res["learned"] = []; return datalog_res
DatalogResult(res, learn) ==
    Return(res.status, res.model, IF learn THEN res.learned ELSE <<>>)

\* datalog_res = _datalog_status(text) and what verify makes of it.
Heuristic94(res, learn) ==
    [outcome |-> IF res.isNone THEN Unknown ELSE DatalogResult(res, learn),
     consulted |-> {"heuristic"}]

\* (from_string outside the try: the parser's exception leaves verify)
Solver94Uncaught(o, learn) ==
    [outcome |-> IF o.parse = "Z3Exception" THEN Raise("Z3Exception")
                 ELSE SolverResult94(o, learn),
     consulted |-> {"solver"}]

\* The solver path: from_string under `except z3.Z3Exception`, then check.
Solver94(o, learn) ==
    [outcome |-> IF o.parse = "Z3Exception" THEN Unknown
                 ELSE SolverResult94(o, learn),
     consulted |-> {"solver"}]

\* verify after the text is read (rd.raised: OSError, caught).
Dispatch94(rd, dialect, learn, o) ==
    IF rd.raised THEN [outcome |-> Unknown, consulted |-> {}]
    ELSE IF StripIsEmpty(rd.text)
    THEN [outcome |-> Unknown, consulted |-> {}]
    ELSE IF dialect = "datalog"
    THEN Heuristic94(DatalogStatus(rd.text), learn)
    ELSE Solver94(o, learn)

\* One call of verify: [outcome, consulted].
Verify94(source, dialect, timeout, learn, o) ==
    IF TimeoutRejected(timeout)
    THEN [outcome |-> Raise("ValueError"), consulted |-> {}]
    ELSE IF DialectRejected(dialect)
    THEN [outcome |-> Raise("ValueError"), consulted |-> {}]
    ELSE Dispatch94(ReadText(source), dialect, learn, o)

(* ---------------------- verify, colab-92 (cached) ---------------------- *)

\* (one list shared by all the caches: the entries of earlier calls stay)
SharedEntries(old) == old

\* _InferenceCache.__init__: self._entries = []
NewEntries(old) == <<>>

\* _InferenceCache.record: self._entries.append(answer)
Record(entries, answer) == Append(entries, answer)

\* _InferenceCache.export: self._entries.copy()
Export(entries) == entries

\* cache = _InferenceCache() if learn else None
NewCache(learn, old) ==
    IF learn THEN [entries |-> NewEntries(old), obj |-> TRUE]
    ELSE [entries |-> old, obj |-> FALSE]

\* (the answer is not recorded)
RecordIfCacheSkipped(c, model) == c

\* if cache: cache.record(model)
RecordIfCache(c, model) ==
    IF c.obj THEN [c EXCEPT !.entries = Record(c.entries, model)] ELSE c

\* cache.export() if cache else []
LearnedFrom(c) == IF c.obj THEN Export(c.entries) ELSE <<>>

\* status "unsafe": model = str(solver.get_answer()), recorded, returned.
Unsafe92(c1, model) ==
    [outcome |-> Return("unsafe", Some(model), LearnedFrom(c1)),
     cache |-> c1.entries]

\* The branches on result = solver.query() and the final return.
SolverResult92(o, c) ==
    IF o.chk = "unsat"
    THEN [outcome |-> Return("safe", None, LearnedFrom(c)),
          cache |-> c.entries]
    ELSE IF o.chk = "sat"
    THEN Unsafe92(RecordIfCache(c, o.answer), o.answer)
    ELSE [outcome |-> Unknown, cache |-> c.entries]

Solved92(r) ==
    [outcome |-> r.outcome, consulted |-> {"solver"}, cache |-> r.cache]

\* The solver path with the cache c of this call: from_string and query
\* under `except z3.Z3Exception`.
Solver92(o, c) ==
    IF o.parse = "Z3Exception"
    THEN [outcome |-> Unknown, consulted |-> {"solver"}, cache |-> c.entries]
    ELSE Solved92(SolverResult92(o, c))

\* verify after the text is read (rd.raised: OSError, not caught).
Dispatch92(old, rd, learn, o) ==
    IF rd.raised
    THEN [outcome |-> Raise("OSError"), consulted |-> {}, cache |-> old]
    ELSE IF StripIsEmpty(rd.text)
    THEN [outcome |-> Unknown, consulted |-> {}, cache |-> old]
    ELSE Solver92(o, NewCache(learn, old))

\* One call of verify: [outcome, consulted, cache]; `old` is the entry list
\* of the cache object built last.
Verify92(old, source, dialect, timeout, learn, o) ==
    IF TimeoutRejected(timeout)
    THEN [outcome |-> Raise("ValueError"), consulted |-> {}, cache |-> old]
    ELSE IF DialectRejected(dialect)
    THEN [outcome |-> Raise("ValueError"), consulted |-> {}, cache |-> old]
    ELSE Dispatch92(old, ReadText(source), learn, o)

(* --------------------------- Datalog programs -------------------------- *)

\* Predicate names.  "P.Q" holds a character outside the patterns' class.
NameP == <<"P">>

NamePQ == <<"P", "Q">>

NameDotted == <<"P", ".", "Q">>

NameList == <<NameP, NamePQ, NameDotted>>

Names == Range(NameList)

\* A program: declared predicates, predicates with a fact (rule without
\* premises), predicates that are the head of a rule with a premise, and
\* the queried predicates in order.
RECURSIVE SeqsUpTo(_, _)
SeqsUpTo(S, n) ==
    IF n = 0 THEN {<<>>}
    ELSE LET shorter == SeqsUpTo(S, n - 1)
         IN  shorter \cup {Append(q, x) : q \in shorter, x \in S}

AtMostOne(S) == {{}} \cup {{n} : n \in S}

Programs ==
    [queries : SeqsUpTo(Names, MaxQueries), decls : SUBSET Names,
     facts : AtMostOne(Names), impls : AtMostOne(Names)]

NoProgram == [queries |-> <<>>, decls |-> {}, facts |-> {}, impls |-> {}]

RenderDecl(n) ==
    <<"(", "declare-rel", " ">> \o n \o <<" ", "(", ")", ")", "\n">>

RenderFact(n) == <<"(", "rule", " ", "(">> \o n \o <<")", ")", "\n">>

RenderImpl(n) ==
    <<"(", "rule", " ", "(", "=>", " ", "(", "Q", ")", " ", "(">>
    \o n \o <<")", ")", ")", "\n">>

RenderQuery(n) == <<"(", "query", " ">> \o n \o <<")", "\n">>

RECURSIVE RenderSet(_, _, _)
RenderSet(S, i, kind) ==
    IF i > Len(NameList) THEN <<>>
    ELSE (IF NameList[i] \in S
          THEN CASE kind = "decl" -> RenderDecl(NameList[i])
                 [] kind = "fact" -> RenderFact(NameList[i])
                 [] OTHER -> RenderImpl(NameList[i])
          ELSE <<>>)
         \o RenderSet(S, i + 1, kind)

RECURSIVE RenderQueries(_)
RenderQueries(qs) ==
    IF qs = <<>> THEN <<>>
    ELSE RenderQuery(Head(qs)) \o RenderQueries(Tail(qs))

Render(p) ==
    RenderSet(p.decls, 1, "decl") \o RenderSet(p.facts, 1, "fact")
    \o RenderSet(p.impls, 1, "impl") \o RenderQueries(p.queries)

(* ------------------------------- inputs -------------------------------- *)

Dialects == {"smtlib2", "datalog", "prolog", "Datalog"}

Timeouts == {-1, 0, 5}

PlainSources ==
    {<<>>, <<" ", "\n">>, <<"missing.smt2">>, BlankFile, LockedFile,
     <<"(check-sat)">>}

FactProgram ==
    [queries |-> <<NameP>>, decls |-> {NameP}, facts |-> {NameP}, impls |-> {}]

SafeProgram ==
    [queries |-> <<NameP>>, decls |-> {NameP}, facts |-> {}, impls |-> {NameP}]

Input(s, d, t, l, isp, p) ==
    [timeout |-> t, dialect |-> d, learn |-> l, source |-> s,
     isProgram |-> isp, program |-> p]

\* The arguments of the calls made one after the other, each with the
\* program its text was written from.
Inputs ==
    {Input(s, d, t, l, FALSE, NoProgram) :
        s \in PlainSources, d \in Dialects, t \in Timeouts, l \in BOOLEAN}
    \cup
    {Input(Render(p), d, 5, l, TRUE, p) :
        p \in {FactProgram, SafeProgram}, d \in {"datalog", "smtlib2"},
        l \in BOOLEAN}
    \cup
    {Input(FactFile, "datalog", 5, l, TRUE, FactProgram) : l \in BOOLEAN}

(* ---------------------- WeatherData (colab-235) ------------------------ *)

\* (`>` in place of `<`)
EntryLessReversed(e1, e2) ==
    \/ e1.priority > e2.priority
    \/ e1.priority = e2.priority /\ e1.idx > e2.idx

\* _ObserverEntry.__lt__: (priority, index) < (other.priority, other.index)
EntryLess(e1, e2) ==
    \/ e1.priority < e2.priority
    \/ e1.priority = e2.priority /\ e1.idx < e2.idx

Swap(h, i, j) == [h EXCEPT ![i] = h[j], ![j] = h[i]]

\* heapq._siftdown: the item at pos moves up while its parent is larger.
RECURSIVE SiftUp(_, _, _)
SiftUp(h, pos, E) ==
    IF pos > 1 /\ EntryLess(E[h[pos]], E[h[pos \div 2]])
    THEN SiftUp(Swap(h, pos, pos \div 2), pos \div 2, E)
    ELSE h

\* heapq.heappush(self._observers, entry)
HeapPush(h, tok, E) == SiftUp(Append(h, tok), Len(h) + 1, E)

\* The smaller child of pos, or 0 at a leaf.
MinChild(h, pos, E) ==
    IF 2 * pos > Len(h) THEN 0
    ELSE IF 2 * pos + 1 <= Len(h)
            /\ EntryLess(E[h[2 * pos + 1]], E[h[2 * pos]])
         THEN 2 * pos + 1
         ELSE 2 * pos

\* heapq._siftup: with distinct keys the item ends where it is smaller
\* than the smaller child on the path of smaller children.
RECURSIVE SiftDown(_, _, _)
SiftDownTo(h, pos, c, E) ==
    IF c # 0 /\ EntryLess(E[h[c]], E[h[pos]])
    THEN SiftDown(Swap(h, pos, c), c, E)
    ELSE h

SiftDown(h, pos, E) == SiftDownTo(h, pos, MinChild(h, pos, E), E)

\* heapq.heapify: for i in reversed(range(n // 2)): _siftup(x, i)
RECURSIVE HeapifyFrom(_, _, _)
HeapifyFrom(h, pos, E) ==
    IF pos < 1 THEN h ELSE HeapifyFrom(SiftDown(h, pos, E), pos - 1, E)

Heapify(h, E) == HeapifyFrom(h, Len(h) \div 2, E)

\* [e for e in self._observers if e.token != token]
RECURSIVE Without(_, _)
Without(h, tok) ==
    IF h = <<>> THEN <<>>
    ELSE IF Head(h) = tok THEN Without(Tail(h), tok)
    ELSE <<Head(h)>> \o Without(Tail(h), tok)

\* list.sort() with __lt__: insertion of each entry after the entries that
\* are not larger (stable).
RECURSIVE InsertSorted(_, _, _)
InsertSorted(sorted, tok, E) ==
    IF sorted = <<>> THEN <<tok>>
    ELSE IF EntryLess(E[tok], E[Head(sorted)]) THEN <<tok>> \o sorted
    ELSE <<Head(sorted)>> \o InsertSorted(Tail(sorted), tok, E)

RECURSIVE SortFrom(_, _, _)
SortFrom(sorted, rest, E) ==
    IF rest = <<>> THEN sorted
    ELSE SortFrom(InsertSorted(sorted, Head(rest), E), Tail(rest), E)

\* snapshot.sort()
SortSnapshot(snapshot, E) == SortFrom(<<>>, snapshot, E)

\* self._metrics as a function from its keys to the number of durations.
MetricsSet(m, tok, n) ==
    [k \in DOMAIN m \cup {tok} |-> IF k = tok THEN n ELSE m[k]]

\* self._metrics.pop(token, None)
MetricsPop(m, tok) == [k \in DOMAIN m \ {tok} |-> m[k]]

\* self._metrics.setdefault(token, []).append(duration)
MetricsAppend(m, tok) ==
    MetricsSet(m, tok, IF tok \in DOMAIN m THEN m[tok] + 1 ELSE 1)

\* The fields of the object that unsubscribe(token) changes.
Removed(obs, m, lg, tok, E) ==
    [m |-> MetricsPop(m, tok), obs |-> Heapify(Without(obs,
     tok), E), lg |-> Append(lg, <<"unsubscribe", tok>>)]

\* unsubscribe(token) under the lock: nothing changes for a token that is
\* not subscribed.
Unsubscribed(obs, m, lg, tok, E) ==
    IF Len(Without(obs, tok)) # Len(obs) THEN Removed(obs, m, lg, tok, E)
    ELSE [m |-> m, obs |-> obs, lg |-> lg]

\* fn is None: a weakly held observer that has been collected.
IsDead(tok, E, D) == E[tok].weak /\ tok \in D

\* _cleanup_dead: the entries that stay, the log and the metrics after it.
RECURSIVE Alive(_, _, _)
Alive(obs, E, D) ==
    IF obs = <<>> THEN <<>>
    ELSE IF IsDead(Head(obs), E, D) THEN Alive(Tail(obs), E, D)
    ELSE <<Head(obs)>> \o Alive(Tail(obs), E, D)

RECURSIVE DeadLog(_, _, _, _)
DeadLog(lg, obs, E, D) ==
    IF obs = <<>> THEN lg
    ELSE DeadLog(IF IsDead(Head(obs), E, D)
                 THEN Append(lg, <<"dead", Head(obs)>>) ELSE lg,
                 Tail(obs), E, D)

RECURSIVE DeadPop(_, _, _, _)
DeadPop(m, obs, E, D) ==
    IF obs = <<>> THEN m
    ELSE DeadPop(IF IsDead(Head(obs), E, D) THEN MetricsPop(m, Head(obs))
                 ELSE m,
                 Tail(obs), E, D)

CleanedObservers(obs, E, D) ==
    IF Len(Alive(obs, E, D)) # Len(obs) THEN Heapify(Alive(obs, E, D), E)
    ELSE obs

\* entry.filter_fn and not entry.filter_fn((temp, hum, pres)): the filter
\* "odd" accepts the odd measurements.
FilteredOut(e, d) == e.filt = "odd" /\ d % 2 = 0

\* A thread outside set_measurements, and the locals of one inside it:
\* the measurement passed (arg), the number of the call (id), the
\* snapshot, the position in it and the values read from self._data (d).
IdleThread ==
    [i |-> 0, d |-> 0, pc |-> "idle", arg |-> 0, id |-> 0, snap |-> <<>>]

\* WeatherData.__init__, with the threads T that use the object.
WeatherNew(T) ==
    /\ observers = <<>>
    /\ ent = <<>>
    /\ paused = FALSE
    /\ metrics = <<>>
    /\ log = <<>>
    /\ data = 0
    /\ dead = {}
    /\ th = [t \in T |-> IdleThread]
    /\ calls = <<>>
    /\ sets = 0
    /\ dropped = {}

\* The arguments of subscribe: a function or a weakly held object with an
\* update method, which returns or raises; priority, once, ttl, filter_fn.
Args(priority, once, hasTtl, ttl, filt, cb, weak) ==
    [priority |-> priority, weak |-> weak, filt |-> filt, once |-> once,
     hasTtl |-> hasTtl, ttl |-> ttl, cb |-> cb]

SubscribeArgs ==
    {Args(1, FALSE, FALSE, 0, "none", "ok", FALSE),
     Args(2, FALSE, FALSE, 0, "none", "ok", FALSE),
     Args(1, TRUE, FALSE, 0, "none", "ok", FALSE),
     Args(1, FALSE, TRUE, 1, "none", "ok", FALSE),
     Args(1, FALSE, TRUE, 2, "none", "ok", FALSE),
     Args(1, TRUE, TRUE, 2, "none", "ok", FALSE),
     Args(1, FALSE, FALSE, 0, "odd", "ok", FALSE),
     Args(1, FALSE, FALSE, 0, "none", "raises", FALSE),
     Args(1, FALSE, FALSE, 0, "none", "ok", TRUE)}

\* The k-th call of set_measurements passes the values k.
Measurements == {sets + 1}

\* _ObserverEntry(fn_strong, fn_ref, priority, once, ttl, filter_fn, token,
\* idx).  Not fields of the object: given, the ttl passed to subscribe,
\* and since, the number of set_measurements calls made before it.
ObserverEntry(a, idx) ==
    [priority |-> a.priority, idx |-> idx, weak |-> a.weak, filt |-> a.filt,
     once |-> a.once, hasTtl |-> a.hasTtl, ttl |-> a.ttl, cb |-> a.cb,
     given |-> a.ttl, since |-> sets]

ThreadIdle(t) == t \in DOMAIN th /\ th[t].pc = "idle"

\* subscribe(callback, priority=, once=, ttl=, filter_fn=): the token is
\* next(_token_gen), counted from 1, the index next(_index_gen), from 0.
Subscribe(t, a) ==
    /\ ThreadIdle(t)
    /\ Len(ent) < MaxSubs
    /\ ent' = Append(ent, ObserverEntry(a, Len(ent)))
    /\ observers' = HeapPush(observers, Len(ent) + 1, ent')
    /\ metrics' = MetricsSet(metrics, Len(ent) + 1, 0)
    /\ log' = Append(log, <<"subscribe", Len(ent) + 1>>)
    /\ UNCHANGED <<paused, data, dead, th, calls, sets, dropped>>
    /\ UNCHANGED <<verifyVars, rbacVars, studentVars, pipelineVars, treeVars>>

\* subscribe(123): TypeError, nothing is changed.
SubscribeNonCallable(t) ==
    /\ ThreadIdle(t)
    /\ UNCHANGED vars

UnsubscribeApply(r, tok) ==
    /\ observers' = r.obs
    /\ metrics' = r.m
    /\ log' = r.lg
    /\ dropped' = IF r.obs # observers THEN dropped \cup {tok} ELSE dropped
    /\ UNCHANGED <<ent, paused, data, dead, th, calls, sets>>
    /\ UNCHANGED <<verifyVars, rbacVars, studentVars, pipelineVars, treeVars>>

\* unsubscribe(token) called by a user of the object.
Unsubscribe(t, tok) ==
    /\ ThreadIdle(t)
    /\ UnsubscribeApply(Unsubscribed(observers, metrics, log, tok, ent), tok)

Count(lg, what) == Cardinality({k \in 1..Len(lg) : lg[k][1] = what})

\* pause()
Pause(t) ==
    /\ ThreadIdle(t)
    /\ Count(log, "pause") < MaxPauses
    /\ paused' = TRUE
    /\ log' = Append(log, <<"pause">>)
    /\ UNCHANGED <<observers, ent, metrics, data, dead, th, calls, sets,
                   dropped>>
    /\ UNCHANGED <<verifyVars, rbacVars, studentVars, pipelineVars, treeVars>>

\* resume(), called on a paused object.
Resume(t) ==
    /\ ThreadIdle(t)
    /\ paused
    /\ paused' = FALSE
    /\ log' = Append(log, <<"resume">>)
    /\ UNCHANGED <<observers, ent, metrics, data, dead, th, calls, sets,
                   dropped>>
    /\ UNCHANGED <<verifyVars, rbacVars, studentVars, pipelineVars, treeVars>>

\* set_measurements(temp, humidity, pressure), the block under the lock.
SetMeasurements(t, m) ==
    /\ ThreadIdle(t)
    /\ sets < MaxSets
    /\ data' = m
    /\ log' = Append(log, <<"set", m>>)
    /\ sets' = sets + 1
    /\ th' = [th EXCEPT ![t] = [IdleThread EXCEPT !.pc = "notify",
                                                   !.arg = m,
                                                   !.id = sets + 1]]
    /\ UNCHANGED <<observers, ent, paused, metrics, dead, calls, dropped>>
    /\ UNCHANGED <<verifyVars, rbacVars, studentVars, pipelineVars, treeVars>>

\* (the test of self._paused left out)
PausedReturnsNever(p) == FALSE

\* if self._paused: return
PausedReturns(p) == p

\* _notify, the first block under the lock: return when paused, else
\* _cleanup_dead() and snapshot = list(self._observers).
NotifyEnter(t) ==
    /\ t \in DOMAIN th
    /\ th[t].pc = "notify"
    /\ IF PausedReturns(paused)
       THEN /\ th' = [th EXCEPT ![t] = IdleThread]
            /\ UNCHANGED <<observers, metrics, log>>
       ELSE /\ observers' = CleanedObservers(observers, ent, dead)
            /\ metrics' = DeadPop(metrics, observers, ent, dead)
            /\ log' = DeadLog(log, observers, ent, dead)
            /\ th' = [th EXCEPT ![t].pc = "read", ![t].snap = observers']
    /\ UNCHANGED <<ent, paused, data, dead, calls, sets, dropped>>
    /\ UNCHANGED <<verifyVars, rbacVars, studentVars, pipelineVars, treeVars>>

\* snapshot.sort(); temp, hum, pres = self._data (outside the lock).
ReadData(t) ==
    /\ t \in DOMAIN th
    /\ th[t].pc = "read"
    /\ th' = [th EXCEPT ![t].pc = "loop",
                        ![t].snap = SortSnapshot(th[t].snap, ent),
                        ![t].i = 1,
                        ![t].d = data]
    /\ UNCHANGED <<observers, ent, paused, metrics, log, data, dead, calls,
                   sets, dropped>>
    /\ UNCHANGED <<verifyVars, rbacVars, studentVars, pipelineVars, treeVars>>

\* A callback invocation: the token called, the values passed, the number
\* and the argument of the set_measurements call that made it.
Invocation(tok, l) == [d |-> l.d, tok |-> tok, arg |-> l.arg, id |-> l.id]

\* (the exception of a callback is not caught: it ends the notification)
CaughtNever(cb) == FALSE

\* try: call_fn(...) except Exception as exc: the exception is caught.
Caught(cb) == cb = "raises"

\* The loop body up to the call: a dead or filtered entry is skipped, else
\* the callback is called, and a caught exception is logged.
Invoke(t, tok) ==
    /\ calls' = Append(calls, Invocation(tok, th[t]))
    /\ IF ent[tok].cb = "raises"
       THEN IF Caught(ent[tok].cb)
            THEN /\ log' = Append(log, <<"error", tok, "exc">>)
                 /\ th' = [th EXCEPT ![t].pc = "account"]
            ELSE /\ log' = log
                 /\ th' = [th EXCEPT ![t] = IdleThread]
       ELSE /\ log' = log
            /\ th' = [th EXCEPT ![t].pc = "account"]

CallNext(t) ==
    /\ t \in DOMAIN th
    /\ th[t].pc = "loop"
    /\ th[t].i <= Len(th[t].snap)
    /\ IF \/ IsDead(th[t].snap[th[t].i], ent, dead)
          \/ FilteredOut(ent[th[t].snap[th[t].i]], th[t].d)
       THEN /\ th' = [th EXCEPT ![t].i = th[t].i + 1]
            /\ UNCHANGED <<calls, log>>
       ELSE Invoke(t, th[t].snap[th[t].i])
    /\ UNCHANGED <<observers, ent, paused, metrics, data, dead, sets,
                   dropped>>
    /\ UNCHANGED <<verifyVars, rbacVars, studentVars, pipelineVars, treeVars>>

\* (`entry.ttl < 0` in place of `entry.ttl <= 0`)
ExpiresLate(e) == e.once \/ (e.hasTtl /\ e.ttl - 1 < 0)

\* if entry.once: unsubscribe; elif entry.ttl is not None: entry.ttl -= 1;
\* if entry.ttl <= 0: unsubscribe
Expires(e) == e.once \/ (e.hasTtl /\ e.ttl - 1 <= 0)

\* entry.ttl -= 1, when once is not set and a ttl is.
Aged(e) ==
    IF ~e.once /\ e.hasTtl THEN [e EXCEPT !.ttl = e.ttl - 1] ELSE e

AccountApply(t, tok, r) ==
    /\ observers' = r.obs
    /\ metrics' = r.m
    /\ log' = r.lg
    /\ ent' = [ent EXCEPT ![tok] = Aged(ent[tok])]
    /\ th' = [th EXCEPT ![t].pc = "loop", ![t].i = th[t].i + 1]
    /\ UNCHANGED <<paused, data, dead, calls, sets, dropped>>
    /\ UNCHANGED <<verifyVars, rbacVars, studentVars, pipelineVars, treeVars>>

\* The block under the lock after a call: the duration is added to the
\* metrics, "notify" is logged, and the entry is unsubscribed when due.
Accounted(tok, m, lg) ==
    IF Expires(ent[tok]) THEN Unsubscribed(observers, m, lg, tok, ent)
    ELSE [m |-> m, obs |-> observers, lg |-> lg]

Account(t) ==
    /\ t \in DOMAIN th
    /\ th[t].pc = "account"
    /\ AccountApply(t, th[t].snap[th[t].i],
                Accounted(th[t].snap[th[t].i],
                          MetricsAppend(metrics, th[t].snap[th[t].i]),
                          Append(log, <<"notify", th[t].snap[th[t].i]>>)))

\* The end of the loop: set_measurements returns.
NotifyReturn(t) ==
    /\ t \in DOMAIN th
    /\ th[t].pc = "loop"
    /\ th[t].i > Len(th[t].snap)
    /\ th' = [th EXCEPT ![t] = IdleThread]
    /\ UNCHANGED <<observers, ent, paused, metrics, log, data, dead, calls,
                   sets, dropped>>
    /\ UNCHANGED <<verifyVars, rbacVars, studentVars, pipelineVars, treeVars>>

\* The garbage collector frees a weakly held observer.
Collect(tok) ==
    /\ tok \in 1..Len(ent)
    /\ ent[tok].weak
    /\ tok \notin dead
    /\ dead' = dead \cup {tok}
    /\ UNCHANGED <<observers, ent, paused, metrics, log, data, th, calls,
                   sets, dropped>>
    /\ UNCHANGED <<verifyVars, rbacVars, studentVars, pipelineVars, treeVars>>

Tokens == 1..MaxSubs

\* The steps of a thread inside set_measurements.
NotifyStep(t) ==
    \/ NotifyEnter(t)
    \/ ReadData(t)
    \/ CallNext(t)
    \/ Account(t)
    \/ NotifyReturn(t)

\* One thread subscribes and sets measurements; observers are collected.
NextWeather ==
    \/ \E a \in SubscribeArgs : Subscribe("main", a)
    \/ SubscribeNonCallable("main")
    \/ \E m \in Measurements : SetMeasurements("main", m)
    \/ NotifyStep("main")
    \/ \E tok \in Tokens : Collect(tok)

\* One thread subscribes, pauses, resumes and sets measurements.
NextPause ==
    \/ \E a \in SubscribeArgs : Len(ent) < MaxShared /\ Subscribe("main", a)
    \/ Pause("main")
    \/ Resume("main")
    \/ \E m \in Measurements : SetMeasurements("main", m)
    \/ NotifyStep("main")

\* Threads subscribe, unsubscribe and set measurements concurrently.
ThreadStep(t) ==
    \/ \E a \in SubscribeArgs : Len(ent) < MaxShared /\ Subscribe(t, a)
    \/ \E tok \in Tokens : Unsubscribe(t, tok)
    \/ \E m \in Measurements : SetMeasurements(t, m)
    \/ NotifyStep(t)

NextThreads == \E t \in DOMAIN th : ThreadStep(t)

(* ------------------------------- RBAC ---------------------------------- *)
(* colab-20211.ipynb: load_authorization_rules and is_action_allowed.      *)
(* A Python value is a record of its type and its content.                 *)

Str(s) == [py |-> "str", v |-> s]

\* An object that is no str.
NotStr == [py |-> "int", v |-> "7"]

List(items) == [py |-> "list", v |-> items]

Tuple(items) == [py |-> "tuple", v |-> items]

\* A dict, as the sequence of its items (key, value) in iteration order.
Dict(items) == [py |-> "dict", v |-> items]

\* isinstance(x, str)
IsStr(x) == x.py = "str"

\* _access_rules_data: dict[str, list[str]] = {}
EmptyRules == [r \in {} |-> <<>>]

\* staging_rules[role_key] = valid_actions_for_current_role
RulesSet(R, role, actions) ==
    [r \in DOMAIN R \cup {role} |-> IF r = role THEN actions ELSE R[r]]

\* _access_rules_data.get(role, [])
RulesGet(R, role) == IF role \in DOMAIN R THEN R[role] ELSE <<>>

\* The inner loop of load_authorization_rules: some action is not a
\* non-empty string.
RECURSIVE InvalidAction(_, _)
InvalidAction(actions, i) ==
    IF i > Len(actions) THEN FALSE
    ELSE IF ~IsStr(actions[i]) \/ actions[i].v = "" THEN TRUE
    ELSE InvalidAction(actions, i + 1)

\* valid_actions_for_current_role, once the inner loop has ended.
ValidActions(actions) == [i \in 1..Len(actions) |-> actions[i].v]

Loaded(raised, staging) == [raised |-> raised, staging |-> staging]

\* The outer loop of load_authorization_rules from the i-th item on.
RECURSIVE Staging(_, _, _)
Staging(items, i, staging) ==
    IF i > Len(items) THEN Loaded("None", staging)
    ELSE IF ~IsStr(items[i][1]) \/ items[i][1].v = ""
    THEN Loaded("ValueError", staging)
    ELSE IF items[i][2].py # "list" THEN Loaded("TypeError", staging)
    ELSE IF InvalidAction(items[i][2].v, 1)
    THEN Loaded("ValueError", staging)
    ELSE Staging(items, i + 1,
                 RulesSet(staging, items[i][1].v,
                          ValidActions(items[i][2].v)))

\* load_authorization_rules(config) up to the assignment of the global.
Stage(config) ==
    IF config.py # "dict" THEN Loaded("TypeError", EmptyRules)
    ELSE Staging(config.v, 1, EmptyRules)

\* (the rules staged so far assigned whether or not the load raised)
RulesAfterPartial(R, l) == l.staging

\* global _access_rules_data; _access_rules_data = staging_rules
RulesAfter(R, l) == IF l.raised = "None" THEN l.staging ELSE R

\* is_action_allowed(role, action): its result, or the exception raised.
IsActionAllowed(R, role, action) ==
    IF ~IsStr(role) THEN "TypeError"
    ELSE IF ~IsStr(action) THEN "TypeError"
    ELSE IF role.v = "" \/ action.v = "" THEN "False"
    ELSE IF action.v \in Range(RulesGet(R, role.v)) THEN "True"
    ELSE "False"

\* The objects passed as role names and as actions.
RoleValues == {Str("admin"), Str("Admin"), Str(""), NotStr}

ActionValues == {Str("read"), Str("Read"), Str(""), NotStr}

\* The objects passed as the actions of a role.
ActionLists ==
    {List(<<>>), List(<<Str("read")>>), List(<<Str("Read")>>),
     List(<<Str("read"), Str("Read")>>), List(<<Str("read"), Str("")>>),
     List(<<NotStr>>), Tuple(<<Str("read")>>)}

\* The keys of a dict are distinct.
DistinctKeys(items) ==
    \A i, j \in 1..Len(items) : items[i][1] = items[j][1] => i = j

\* The objects passed as configuration.
Configs ==
    {Dict(items) : items \in {it \in SeqsUpTo(RoleValues \X ActionLists,
                                               MaxRoles) :
                                  DistinctKeys(it)}}
        \cup {List(<<>>)}

NoCheck ==
    [role |-> NotStr, action |-> NotStr, op |-> "none", result |-> "none"]

\* The module has been imported; no call has been made.
RbacNew ==
    /\ access_rules_data = EmptyRules
    /\ last = NoCheck
    /\ inForce = <<>>

LoadApply(config, l) ==
    /\ access_rules_data' = RulesAfter(access_rules_data, l)
    /\ last' = [NoCheck EXCEPT !.op = "load", !.result = l.raised]
    /\ inForce' = IF l.raised = "None" THEN <<config>> ELSE inForce

\* A call of load_authorization_rules(config).
LoadAuthorizationRules(config) ==
    /\ LoadApply(config, Stage(config))
    /\ UNCHANGED <<verifyVars, weatherVars, studentVars, pipelineVars,
                   treeVars>>

\* A call of is_action_allowed(role, action).
CheckAction(role, action) ==
    /\ last' = [role |-> role, action |-> action, op |-> "check",
                result |-> IsActionAllowed(access_rules_data, role, action)]
    /\ UNCHANGED <<access_rules_data, inForce>>
    /\ UNCHANGED <<verifyVars, weatherVars, studentVars, pipelineVars,
                   treeVars>>

NextRbac ==
    \/ \E config \in Configs : LoadAuthorizationRules(config)
    \/ \E role \in RoleValues, action \in ActionValues :
           CheckAction(role, action)

(* ------------------------ max_active_students -------------------------- *)
(* 31.ipynb.  A dict is the sequence of its items (key, value) in          *)
(* iteration order; an interval is a pair (start, end); the key of an      *)
(* interval is the pair (student_id, interval_index).  The arguments are   *)
(* of the declared types, so that of the validation at the head of the     *)
(* function only the tests for emptiness can fail.                         *)

Max(a, b) == IF a > b THEN a ELSE b

\* Step 1: the intervals in the order of their unique IDs, which count
\* from 1 here.
RECURSIVE Numbered(_, _)
Numbered(intervals, i) ==
    IF i > Len(intervals) THEN <<>>
    ELSE [k \in 1..Len(intervals[i][2]) |->
              [student |-> intervals[i][1], index |-> k - 1,
               start |-> intervals[i][2][k][1],
               end |-> intervals[i][2][k][2]]]
             \o Numbered(intervals, i + 1)

\* key in interval_id_map
InMap(flat, key) ==
    \E k \in 1..Len(flat) :
        flat[k].student = key[1] /\ flat[k].index = key[2]

\* interval_id_map[key]
IdOf(flat, key) ==
    CHOOSE k \in 1..Len(flat) :
        flat[k].student = key[1] /\ flat[k].index = key[2]

\* Validating that all dependency references are valid.
UnknownReference(flat, dependencies) ==
    \E i \in 1..Len(dependencies) :
        \/ ~InMap(flat, dependencies[i][1])
        \/ \E j \in 1..Len(dependencies[i][2]) :
               ~InMap(flat, dependencies[i][2][j])

\* Step 2: the pairs (prereq_id, target_id) in the order in which the loop
\* over dependencies.items() meets them.
RECURSIVE EdgesFrom(_, _, _)
EdgesFrom(flat, dependencies, i) ==
    IF i > Len(dependencies) THEN <<>>
    ELSE [j \in 1..Len(dependencies[i][2]) |->
              <<IdOf(flat, dependencies[i][2][j]),
                IdOf(flat, dependencies[i][1])>>]
             \o EdgesFrom(flat, dependencies, i + 1)

\* graph[prereq_id]
Neighbors(edges, p) ==
    LET out == SelectSeq(edges, LAMBDA e : e[1] = p)
    IN  [k \in 1..Len(out) |-> out[k][2]]

Graph(total, edges) == [p \in 1..total |-> Neighbors(edges, p)]

Indegree(total, edges) ==
    [t \in 1..total |->
         Cardinality({k \in 1..Len(edges) : edges[k][2] = t})]

\* Step 3: topo_queue before the loop.
Sources(total, indegree) ==
    SelectSeq([k \in 1..total |-> k], LAMBDA k : indegree[k] = 0)

Topo(queue, indegree) == [indegree |-> indegree, queue |-> queue]

\* for neighbor in graph[current]: indegree[neighbor] -= 1, and the
\* neighbor is appended to topo_queue when its indegree is 0.
RECURSIVE Released(_, _, _)
Released(neighbors, j, q) ==
    IF j > Len(neighbors) THEN q
    ELSE Released(neighbors, j + 1,
                  Topo(IF q.indegree[neighbors[j]] - 1 = 0
                       THEN Append(q.queue, neighbors[j])
                       ELSE q.queue,
                       [q.indegree EXCEPT ![neighbors[j]] = @ - 1]))

\* while head < len(topo_queue): topo_order when the loop ends.
RECURSIVE TopoOrder(_, _, _, _)
TopoOrder(graph, q, head, order) ==
    IF head > Len(q.queue) THEN order
    ELSE TopoOrder(graph, Released(graph[q.queue[head]], 1, q), head + 1,
                   Append(order, q.queue[head]))

\* (the test for a cycle left out)
CycleFoundNever(order, total) == FALSE

\* if len(topo_order) < total_intervals: return 0
CycleFound(order, total) == Len(order) < total

\* Step 4: the inner loop, over the neighbors of an interval ending at e.
RECURSIVE RaisedEnds(_, _, _, _)
RaisedEnds(neighbors, j, latest, e) ==
    IF j > Len(neighbors) THEN latest
    ELSE RaisedEnds(neighbors, j + 1,
                [latest EXCEPT ![neighbors[j]] = Max(@, e)], e)

\* Step 4: latest_dependency_end when the loop over topo_order ends.
RECURSIVE LatestDependencyEnd(_, _, _, _, _)
LatestDependencyEnd(graph, flat, order, i, latest) ==
    IF i > Len(order) THEN latest
    ELSE LatestDependencyEnd(graph, flat, order, i + 1,
                             RaisedEnds(graph[order[i]], 1, latest,
                                    flat[order[i]].end))

\* (the prerequisites ignored)
EffectiveStartOwn(start, latest) == start

\* effective_start = max(start_times[id], latest_dependency_end[id])
EffectiveStart(start, latest) == Max(start, latest)

\* Step 5: student_valid_intervals[student_id], empty when the student
\* is no key of the dict.
ValidIntervals(flat, latest, student) ==
    LET ids == SelectSeq([k \in 1..Len(flat) |-> k],
                         LAMBDA k :
                             /\ flat[k].student = student
                             /\ EffectiveStart(flat[k].start, latest[k])
                                    <= flat[k].end)
    IN  [j \in 1..Len(ids) |->
             <<EffectiveStart(flat[ids[j]].start, latest[ids[j]]),
               flat[ids[j]].end>>]

\* The order of pairs of integers (lists or tuples) in Python.
PairLess(a, b) == a[1] < b[1] \/ (a[1] = b[1] /\ a[2] < b[2])

RECURSIVE InsertPair(_, _)
InsertPair(sorted, x) ==
    IF sorted = <<>> THEN <<x>>
    ELSE IF PairLess(x, Head(sorted)) THEN <<x>> \o sorted
    ELSE <<Head(sorted)>> \o InsertPair(Tail(sorted), x)

\* list.sort() on pairs of integers.
RECURSIVE SortPairs(_)
SortPairs(list) ==
    IF list = <<>> THEN <<>>
    ELSE InsertPair(SortPairs(SubSeq(list, 1, Len(list) - 1)),
                    list[Len(list)])

\* Step 6: what one student's sorted list adds to all_merged_intervals,
\* from the j-th interval on.
RECURSIVE MergedFrom(_, _, _, _)
MergedFrom(list, j, merged_start, merged_end) ==
    IF j > Len(list) THEN <<<<merged_start, merged_end>>>>
    ELSE IF list[j][1] <= merged_end + 1
    THEN MergedFrom(list, j + 1, merged_start, Max(merged_end, list[j][2]))
    ELSE <<<<merged_start, merged_end>>>>
             \o MergedFrom(list, j + 1, list[j][1], list[j][2])

MergedOf(sorted) == MergedFrom(sorted, 2, sorted[1][1], sorted[1][2])

\* Step 6: all_merged_intervals, over the students that have a valid
\* interval, in the order of the dict.
RECURSIVE AllMerged(_, _, _, _)
AllMerged(intervals, flat, latest, i) ==
    IF i > Len(intervals) THEN <<>>
    ELSE (IF ValidIntervals(flat, latest, intervals[i][1]) = <<>>
          THEN <<>>
          ELSE MergedOf(SortPairs(ValidIntervals(flat, latest,
                                                 intervals[i][1]))))
             \o AllMerged(intervals, flat, latest, i + 1)

\* Step 7: events before events.sort().
RECURSIVE Events(_, _)
Events(merged, i) ==
    IF i > Len(merged) THEN <<>>
    ELSE <<<<merged[i][1], 1>>, <<merged[i][2] + 1, -1>>>>
             \o Events(merged, i + 1)

\* queries = [(time, idx) for idx, time in enumerate(query_times)]
Queries(query_times) ==
    [k \in 1..Len(query_times) |-> <<query_times[k], k - 1>>]

Swept(event_ptr, active_students) ==
    [event_ptr |-> event_ptr, active_students |-> active_students]

\* while event_ptr < len(events) and events[event_ptr][0] <= query_time
RECURSIVE Advanced(_, _, _)
Advanced(events, w, query_time) ==
    IF w.event_ptr <= Len(events) /\ events[w.event_ptr][1] <= query_time
    THEN Advanced(events,
                  Swept(w.event_ptr + 1,
                        w.active_students + events[w.event_ptr][2]),
                  query_time)
    ELSE w

\* Step 8: result when the loop over the sorted queries ends.
RECURSIVE Counted(_, _, _, _, _)
Counted(events, queries, i, w, result) ==
    IF i > Len(queries) THEN result
    ELSE Counted(events, queries, i + 1,
                 Advanced(events, w, queries[i][1]),
                 [result EXCEPT ![queries[i][2] + 1] =
                      Advanced(events, w, queries[i][1]).active_students])

\* max(result)
RECURSIVE MaxOf(_)
MaxOf(result) ==
    IF Len(result) = 1 THEN result[1]
    ELSE Max(result[1], MaxOf(Tail(result)))

\* Steps 7 and 8.
MaxCounted(merged, query_times) ==
    MaxOf(Counted(SortPairs(Events(merged, 1)),
                  SortPairs(Queries(query_times)), 1, Swept(1, 0),
                  [k \in 1..Len(query_times) |-> 0]))

\* Steps 4 to 8, given topo_order.
MaxActiveSorted(intervals, flat, graph, order, query_times) ==
    LET latest == LatestDependencyEnd(graph, flat, order, 1,
                                      [k \in 1..Len(flat) |-> 0])
        merged == AllMerged(intervals, flat, latest, 1)
    IN  IF merged = <<>> THEN 0 ELSE MaxCounted(merged, query_times)

\* Steps 2 to 8, given the numbered intervals.
MaxActiveNumbered(intervals, flat, dependencies, query_times) ==
    LET edges == EdgesFrom(flat, dependencies, 1)
        graph == Graph(Len(flat), edges)
        indegree == Indegree(Len(flat), edges)
        order == TopoOrder(graph,
                           Topo(Sources(Len(flat), indegree), indegree),
                           1, <<>>)
    IN  IF CycleFound(order, Len(flat)) THEN 0
        ELSE MaxActiveSorted(intervals, flat, graph, order, query_times)

\* max_active_students(intervals, dependencies, query_times)
MaxActiveStudents(intervals, dependencies, query_times) ==
    IF intervals = <<>> \/ query_times = <<>> THEN 0
    ELSE IF UnknownReference(Numbered(intervals, 1), dependencies) THEN 0
    ELSE MaxActiveNumbered(intervals, Numbered(intervals, 1), dependencies,
                           query_times)

Times == 0..MaxTime

\* 0 <= start_time <= end_time
IntervalValues == {iv \in Times \X Times : iv[1] <= iv[2]}

IntervalLists == SeqsUpTo(IntervalValues, MaxIntervals)

\* The students 0 and 1 with their lists of intervals.
IntervalDicts == {<<<<0, a>>, <<1, b>>>> : a, b \in IntervalLists}

\* The keys (student_id, interval_index) of the intervals.
KeysOf(intervals) ==
    UNION {{<<intervals[i][1], k - 1>> : k \in 1..Len(intervals[i][2])} :
               i \in 1..Len(intervals)}

RECURSIVE Prerequisites(_, _)
Prerequisites(dependencies, i) ==
    IF i > Len(dependencies) THEN 0
    ELSE Len(dependencies[i][2]) + Prerequisites(dependencies, i + 1)

\* The dicts of dependencies among the given keys that list at most
\* MaxDeps prerequisites.
DependencyDicts(keys) ==
    {d \in SeqsUpTo(keys \X (SeqsUpTo(keys, MaxDeps) \ {<<>>}), MaxDeps) :
         /\ \A i, j \in 1..Len(d) : d[i][1] = d[j][1] => i = j
         /\ Prerequisites(d, 1) <= MaxDeps}

Arguments(intervals, dependencies, query_times) ==
    [intervals |-> intervals, dependencies |-> dependencies,
     query_times |-> query_times]

\* No call is under way.
StudentsNew ==
    /\ args = Arguments(<<>>, <<>>, <<>>)
    /\ returned = <<>>

\* max_active_students, from the call to the return.
ReturnMax ==
    /\ returned = <<>>
    /\ returned' = <<MaxActiveStudents(args.intervals, args.dependencies,
                                       args.query_times)>>
    /\ UNCHANGED args
    /\ UNCHANGED <<verifyVars, weatherVars, rbacVars, pipelineVars, treeVars>>

NextStudents == ReturnMax

(* ----------------------- process_csv_pipeline -------------------------- *)
(* colab-2012.ipynb.  A row is a function from column names to values; an  *)
(* operation is a Python value whose content is the sequence of its        *)
(* elements, a function among them standing as the name of what it does.   *)

\* A row of the file, as csv.DictReader yields it.
Row(name, age) ==
    [c \in {"name", "age"} |-> IF c = "name" THEN Str(name) ELSE Str(age)]

\* list(csv.DictReader(csvfile)) for a file that can be opened.
Rows(file) ==
    IF file = "rows" THEN <<Row("Alice", "30"), Row("Dana", "invalid")>>
    ELSE <<>>

\* str.isdigit on the texts that occur.
IsDigit(text) == text \in {"30", "1"}

\* func(value) for the filter functions: "True", "False" or "raises".
\*   always  : lambda x: True          never : lambda x: False
\*   isdigit : lambda x: x.isdigit()   int   : lambda x: int(x) > 0
FilterFunc(func, value) ==
    CASE func = "always" -> "True"
      [] func = "never" -> "False"
      [] func = "isdigit" ->
             IF ~IsStr(value) THEN "raises"
             ELSE IF IsDigit(value.v) THEN "True" ELSE "False"
      [] OTHER -> IF IsDigit(value.v) THEN "True" ELSE "raises"

\* _safe_apply_filter(row, column, func)
SafeApplyFilter(row, column, func) ==
    IF column \notin DOMAIN row THEN FALSE
    ELSE FilterFunc(func, row[column]) = "True"

\* func(row) for the map functions raises:
\*   parse : lambda row: int(row['age'])    one : lambda row: 1
MapFuncRaises(func, row) == func = "parse" /\ ~IsDigit(row["age"].v)

MapFunc(func, row) ==
    IF func = "parse" THEN [py |-> "int", v |-> row["age"].v]
    ELSE [py |-> "int", v |-> "1"]

\* {**row, new_col_name: new_value}
WithColumn(row, new_col_name, new_value) ==
    [c \in DOMAIN row \cup {new_col_name} |->
         IF c = new_col_name THEN new_value ELSE row[c]]

\* The rows kept by the filter operation.
RECURSIVE Filtered(_, _, _)
Filtered(rows, column, func) ==
    IF rows = <<>> THEN <<>>
    ELSE (IF SafeApplyFilter(Head(rows), column, func)
          THEN <<Head(rows)>> ELSE <<>>)
             \o Filtered(Tail(rows), column, func)

\* mapped_data: the rows for which _safe_apply_map returns a row.
RECURSIVE Mapped(_, _, _)
Mapped(rows, new_col_name, func) ==
    IF rows = <<>> THEN <<>>
    ELSE (IF MapFuncRaises(func, Head(rows)) THEN <<>>
          ELSE <<WithColumn(Head(rows), new_col_name,
                            MapFunc(func, Head(rows)))>>)
             \o Mapped(Tail(rows), new_col_name, func)

PipeOutcome(kind, exc, rows, value) ==
    [exc |-> exc, kind |-> kind, rows |-> rows, value |-> value]

PipeRaise(exc) == PipeOutcome("raise", exc, <<>>, 0)

\* return reduce(reduce_func, data, initial_value), with initial_value 0:
\*   count : lambda acc, row: acc + 1    fails : lambda acc, row: row['x']
Reduced(func, rows) ==
    IF func = "fails" /\ rows # <<>> THEN PipeRaise("KeyError")
    ELSE PipeOutcome("value", "", <<>>, Len(rows))

\* if not isinstance(operation, tuple) or not operation
NoTuple(operation) == operation.py # "tuple" \/ operation.v = <<>>

\* The loop over operations from the i-th on.
RECURSIVE Pipeline(_, _, _)
Pipeline(rows, operations, i) ==
    IF i > Len(operations) THEN PipeOutcome("list", "", rows, 0)
    ELSE IF NoTuple(operations[i]) THEN PipeRaise("ValueError")
    ELSE IF operations[i].v[1] = "filter"
    THEN IF Len(operations[i].v) # 3 THEN PipeRaise("ValueError")
         ELSE Pipeline(Filtered(rows, operations[i].v[2],
                                operations[i].v[3]),
                       operations, i + 1)
    ELSE IF operations[i].v[1] = "map"
    THEN IF Len(operations[i].v) # 3 THEN PipeRaise("ValueError")
         ELSE Pipeline(Mapped(rows, operations[i].v[2],
                              operations[i].v[3]),
                       operations, i + 1)
    ELSE IF operations[i].v[1] = "reduce"
    THEN IF Len(operations[i].v) # 3 THEN PipeRaise("ValueError")
         ELSE Reduced(operations[i].v[2], rows)
    ELSE PipeRaise("ValueError")

\* process_csv_pipeline(file_path, operations)
ProcessCsvPipeline(file, operations) ==
    IF file = "missing" THEN PipeRaise("FileNotFoundError")
    ELSE Pipeline(Rows(file), operations, 1)

\* The files: none at the path, a header alone, a header and two rows.
Files == {"missing", "header", "rows"}

\* The elements of the operations list.
Operations ==
    {[py |-> "NoneType", v |-> <<>>],
     List(<<"filter", "age", "always">>),
     Tuple(<<>>),
     Tuple(<<"transform", "age", "always">>),
     Tuple(<<"filter", "age">>),
     Tuple(<<"filter", "age", "always", "more">>),
     Tuple(<<"map", "one">>),
     Tuple(<<"reduce", "count">>),
     Tuple(<<"filter", "age", "always">>),
     Tuple(<<"filter", "age", "never">>),
     Tuple(<<"filter", "age", "isdigit">>),
     Tuple(<<"filter", "age", "int">>),
     Tuple(<<"filter", "parsed", "isdigit">>),
     Tuple(<<"filter", "salary", "always">>),
     Tuple(<<"map", "parsed", "parse">>),
     Tuple(<<"map", "one", "one">>),
     Tuple(<<"reduce", "count", "0">>),
     Tuple(<<"reduce", "fails", "0">>)}

Job(file, operations) == [file |-> file, operations |-> operations]

NotPiped == PipeOutcome("none", "", <<>>, 0)

\* No call is under way.
PipelineNew ==
    /\ job = Job("missing", <<>>)
    /\ piped = NotPiped

\* process_csv_pipeline, from the call to the return or the raise.
RunPipeline ==
    /\ piped = NotPiped
    /\ piped' = ProcessCsvPipeline(job.file, job.operations)
    /\ UNCHANGED job
    /\ UNCHANGED <<verifyVars, weatherVars, rbacVars, studentVars, treeVars>>

NextPipeline == RunPipeline

(* ----------------------------- rowWiseMax ------------------------------ *)
(* ms-novel-code-golang/test/main_test.go.  A *Node is nil, the empty      *)
(* tuple, or points to a Node, the tuple of its Val, Left and Right.  A    *)
(* slice is nil or not, and has its elements.                              *)

Nil == <<>>

Node(val, left, right) == <<val, left, right>>

Val(node) == node[1]

Left(node) == node[2]

Right(node) == node[3]

Slice(isNil, elems) == [isNil |-> isNil, elems |-> elems]

\* var res []int
NilSlice == Slice(TRUE, <<>>)

\* append(slice, x)
AppendTo(slice, x) == Slice(FALSE, Append(slice.elems, x))

\* (maxVal starting from the zero value)
FirstValZero(queue) == 0

\* maxVal := queue[0].Val
FirstVal(queue) == Val(queue[1])

\* The children of the node, as the loop appends them to the queue.
Children(node) ==
    (IF Left(node) # Nil THEN <<Left(node)>> ELSE <<>>)
        \o (IF Right(node) # Nil THEN <<Right(node)>> ELSE <<>>)

Level(queue, maxVal) == [queue |-> queue, maxVal |-> maxVal]

\* for i := 0; i < levelSize; i++ { ... }, from i on.
RECURSIVE ProcessLevel(_, _, _)
ProcessLevel(l, i, levelSize) ==
    IF i >= levelSize THEN l
    ELSE ProcessLevel(Level(Tail(l.queue) \o Children(Head(l.queue)),
                            IF Val(Head(l.queue)) > l.maxVal
                            THEN Val(Head(l.queue)) ELSE l.maxVal),
                      i + 1, levelSize)

\* for len(queue) > 0 { ... }: res when the loop ends.
RECURSIVE RowsOf(_, _)
RowsOf(queue, res) ==
    IF Len(queue) = 0 THEN res
    ELSE RowsOf(ProcessLevel(Level(queue, FirstVal(queue)), 0,
                             Len(queue)).queue,
                AppendTo(res,
                         ProcessLevel(Level(queue, FirstVal(queue)), 0,
                                      Len(queue)).maxVal))

\* rowWiseMax(root): the slice under the key "output" of the map returned.
RowWiseMax(tree) ==
    IF tree = Nil THEN Slice(FALSE, <<>>)
    ELSE RowsOf(<<tree>>, NilSlice)

\* The values of the nodes.
Vals == {-2, -1, 3}

\* The trees of n nodes.
RECURSIVE TreesOf(_)
TreesOf(n) ==
    IF n = 0 THEN {Nil}
    ELSE UNION {{Node(val, left, right) :
                     val \in Vals, left \in TreesOf(k),
                     right \in TreesOf(n - 1 - k)} : k \in 0..(n - 1)}

Trees == UNION {TreesOf(n) : n \in 0..MaxNodes}

\* No call is under way.
TreeNew ==
    /\ root = Nil
    /\ got = <<>>

\* rowWiseMax, from the call to the return.
CallRowWiseMax ==
    /\ got = <<>>
    /\ got' = <<RowWiseMax(root)>>
    /\ UNCHANGED root
    /\ UNCHANGED <<verifyVars, weatherVars, rbacVars, studentVars,
                   pipelineVars>>

NextTree == CallRowWiseMax

(* ---------------------------- state machine ---------------------------- *)

NoCall ==
    [timeout |-> 0, dialect |-> "", learn |-> FALSE, source |-> <<>>,
     isProgram |-> FALSE, program |-> NoProgram, oracle |-> Idle,
     variant |-> "none"]

CallOf(variant, in, o, reached) ==
    [timeout |-> in.timeout, dialect |-> in.dialect, learn |-> in.learn,
     source |-> in.source, isProgram |-> in.isProgram, program |-> in.program,
     oracle |-> IF "solver" \in reached THEN o ELSE Idle, variant |-> variant]

\* No call of verify has been made.
VerifyNew ==
    /\ call = NoCall
    /\ outcome = NoOutcome
    /\ consulted = {}
    /\ cache = <<>>
    /\ before = <<>>

Init ==
    /\ VerifyNew
    /\ WeatherNew({})
    /\ RbacNew
    /\ StudentsNew
    /\ PipelineNew
    /\ TreeNew

\* verify(...) of task_colab-94/main.py, from entry to return or raise.
\* The solver's behaviour o is recorded only when the solver is reached.
Done94(in, o, r) ==
    /\ call' = CallOf("colab-94", in, o, r.consulted)
    /\ outcome' = r.outcome
    /\ consulted' = r.consulted
    /\ before' = cache
    /\ UNCHANGED cache

Apply94(in, o) ==
    Done94(in, o, Verify94(in.source, in.dialect, in.timeout, in.learn, o))

\* verify(...) of task_colab-92/main.py, from entry to return or raise.
Done92(in, o, r) ==
    /\ call' = CallOf("colab-92", in, o, r.consulted)
    /\ outcome' = r.outcome
    /\ consulted' = r.consulted
    /\ before' = cache
    /\ cache' = r.cache

Apply92(in, o) ==
    Done92(in, o, Verify92(cache, in.source, in.dialect, in.timeout,
                           in.learn, o))

Call94 ==
    /\ \E in \in Inputs, o \in Oracles : Apply94(in, o)
    /\ UNCHANGED <<weatherVars, rbacVars, studentVars, pipelineVars, treeVars>>

Call92 ==
    /\ \E in \in Inputs, o \in Oracles : Apply92(in, o)
    /\ UNCHANGED <<weatherVars, rbacVars, studentVars, pipelineVars, treeVars>>

Next == Call94 \/ Call92

\* Any sequence of calls of either variant.
Spec == Init /\ [][Next]_vars

\* One call of the colab-94 variant on each generated Datalog program.
InitDatalog ==
    /\ \E p \in Programs, l \in BOOLEAN :
           call = CallOf("pending", Input(Render(p), "datalog", 5, l, TRUE, p),
                         Idle, {})
    /\ outcome = NoOutcome
    /\ consulted = {}
    /\ cache = <<>>
    /\ before = <<>>
    /\ WeatherNew({})
    /\ RbacNew
    /\ StudentsNew
    /\ PipelineNew
    /\ TreeNew

Run94 ==
    /\ UNCHANGED <<weatherVars, rbacVars, studentVars, pipelineVars, treeVars>>
    /\ call.variant = "pending"
    /\ \E o \in Oracles :
           Apply94(Input(call.source, call.dialect, call.timeout,
                         call.learn, call.isProgram, call.program), o)

NextDatalog == Run94

SpecDatalog == InitDatalog /\ [][NextDatalog]_vars

\* One thread using a WeatherData object: every call returns before the
\* next one is made.
InitWeather ==
    /\ VerifyNew
    /\ WeatherNew({"main"})
    /\ RbacNew
    /\ StudentsNew
    /\ PipelineNew
    /\ TreeNew

SpecWeather == InitWeather /\ [][NextWeather]_vars

SpecPause == InitWeather /\ [][NextPause]_vars

\* Two threads using one WeatherData object.
InitThreads ==
    /\ VerifyNew
    /\ WeatherNew({"t1", "t2"})
    /\ RbacNew
    /\ StudentsNew
    /\ PipelineNew
    /\ TreeNew

SpecThreads == InitThreads /\ [][NextThreads]_vars

\* Any sequence of calls of the two RBAC functions.
InitRbac ==
    /\ VerifyNew
    /\ WeatherNew({})
    /\ RbacNew
    /\ StudentsNew
    /\ PipelineNew
    /\ TreeNew

SpecRbac == InitRbac /\ [][NextRbac]_vars

\* One call of max_active_students on each of the generated arguments.
InitStudents ==
    /\ VerifyNew
    /\ WeatherNew({})
    /\ RbacNew
    /\ \E intervals \in IntervalDicts :
           \E dependencies \in DependencyDicts(KeysOf(intervals)),
              query_times \in SeqsUpTo(Times, MaxTimes) :
               args = Arguments(intervals, dependencies, query_times)
    /\ returned = <<>>
    /\ PipelineNew
    /\ TreeNew

SpecStudents == InitStudents /\ [][NextStudents]_vars

\* One call of process_csv_pipeline on each file and operations list.
InitPipeline ==
    /\ VerifyNew
    /\ WeatherNew({})
    /\ RbacNew
    /\ StudentsNew
    /\ \E file \in Files, operations \in SeqsUpTo(Operations, MaxOps) :
           job = Job(file, operations)
    /\ piped = NotPiped
    /\ TreeNew

SpecPipeline == InitPipeline /\ [][NextPipeline]_vars

\* One call of rowWiseMax on each tree.
InitTree ==
    /\ VerifyNew
    /\ WeatherNew({})
    /\ RbacNew
    /\ StudentsNew
    /\ PipelineNew
    /\ root \in Trees
    /\ got = <<>>

SpecTree == InitTree /\ [][NextTree]_vars

(* ------------------------------ properties ----------------------------- *)

\* A call of either variant has been made; `call` and `outcome` are its
\* arguments and its result.
Called == call.variant \in {"colab-94", "colab-92"}

ValidArgs == call.timeout > 0 /\ call.dialect \in {"smtlib2", "datalog"}

Raised(exc) == outcome.kind = "raise" /\ outcome.exc = exc

Blank(text) == \A i \in 1..Len(text) : text[i] \in {" ", "\n"}

\* The source resolves to a text (the file's, or the source itself).
Resolves == ~IsFile(call.source) \/ ~OpenRaises(call.source)

Resolved ==
    IF IsFile(call.source) THEN FileText(call.source) ELSE call.source

\* C1: every call with timeout <= 0 raises ValueError and returns no
\* record, whatever source, dialect and learn are.
NonPositiveTimeoutRaises ==
    (Called /\ call.timeout <= 0) => Raised("ValueError")

NonPositiveTimeoutSeen ==
    /\ Called
    /\ call.timeout = 0
    /\ call.dialect = "prolog"
    /\ call.source = <<"missing.smt2">>
    /\ Raised("ValueError")

\* C2: with a positive timeout, every dialect other than exactly "smtlib2"
\* or "datalog" raises ValueError, whatever the source is.
UnknownDialectRaises ==
    (Called /\ call.timeout > 0
            /\ call.dialect \notin {"smtlib2", "datalog"})
        => Raised("ValueError")

UnknownDialectSeen ==
    /\ Called
    /\ call.timeout > 0
    /\ call.dialect = "Datalog"
    /\ call.source = <<" ", "\n">>
    /\ Raised("ValueError")

\* C3: with valid arguments and a resolved text that is empty or
\* whitespace-only, the result is exactly unknown / None / [] and neither
\* the Datalog heuristic nor the solver is consulted.
BlankTextIsUnknown ==
    (Called /\ ValidArgs /\ Resolves /\ Blank(Resolved))
        => (outcome = Unknown /\ consulted = {})

BlankTextSeen ==
    /\ call.variant = "colab-94"
    /\ call.dialect = "datalog"
    /\ call.learn
    /\ call.source = <<" ", "\n">>
    /\ outcome = Unknown

\* The program the text of a colab-94 Datalog call was written from.
RanProgram ==
    /\ call.variant = "colab-94"
    /\ call.isProgram
    /\ call.dialect = "datalog"
    /\ call.timeout > 0
    /\ call.program.queries # <<>>

FirstQueried == call.program.queries[1]

ReportsUnsafeNaming(n) ==
    /\ outcome.kind = "return"
    /\ outcome.status = "unsafe"
    /\ outcome.model.some
    /\ outcome.model.text # <<>>
    /\ Contains(outcome.model.text, n)

\* C4: a program that declares P, has a rule (P) without
\* premises and queries P first is reported unsafe, the model naming P.
FactQueriedIsUnsafe ==
    (RanProgram /\ FirstQueried \in call.program.decls
                /\ FirstQueried \in call.program.facts)
        => ReportsUnsafeNaming(FirstQueried)

\* C5: a program that declares its first queried predicate P and
\* has no rule (P) without premises is reported safe / None / [].
NoFactQueriedIsSafe ==
    (RanProgram /\ FirstQueried \in call.program.decls
                /\ FirstQueried \notin call.program.facts)
        => outcome = Return("safe", None, <<>>)

\* C6: a first queried predicate that is not declared gives
\* unknown / None / [], also when a rule with that head is present.
UndeclaredQueriedIsUnknown ==
    (RanProgram /\ FirstQueried \notin call.program.decls)
        => outcome = Unknown

\* C7: every call with learn=False that returns has learned = [], in both
\* dialects and for every status.
NoLearningNoLearned ==
    (Called /\ ~call.learn /\ outcome.kind = "return")
        => outcome.learned = <<>>

NoLearningUnsafeSeen ==
    /\ call.variant = "colab-94"
    /\ call.dialect = "datalog"
    /\ ~call.learn
    /\ outcome.kind = "return"
    /\ outcome.status = "unsafe"
    /\ outcome.learned = <<>>

\* C8: every call with learn=True that returns unsafe has a non-empty
\* learned sequence with an entry equal to the model text.
LearningKeepsModel ==
    (Called /\ call.learn /\ outcome.kind = "return"
            /\ outcome.status = "unsafe")
        => /\ outcome.learned # <<>>
           /\ outcome.model.some
           /\ \E i \in 1..Len(outcome.learned) :
                  outcome.learned[i] = outcome.model.text

LearningUnsafeSeen ==
    /\ call.variant = "colab-92"
    /\ call.dialect = "smtlib2"
    /\ call.learn
    /\ call.oracle.chk = "sat"
    /\ outcome.status = "unsafe"
    /\ outcome.learned = <<call.oracle.answer>>

\* What the last call returns when it is the very first call, the solver
\* answering as it did.
AsFirstCall ==
    IF call.variant = "colab-92"
    THEN Verify92(<<>>, call.source, call.dialect, call.timeout, call.learn,
                  call.oracle).outcome
    ELSE Verify94(call.source, call.dialect, call.timeout, call.learn,
                  call.oracle).outcome

\* C9: after any sequence of earlier calls, a call returns the status,
\* model and learned it returns as the very first call; learned holds no
\* answer of an earlier call.
CallsAreIndependent == Called => outcome = AsFirstCall

SecondLearningCallSeen ==
    /\ call.variant = "colab-92"
    /\ before # <<>>
    /\ call.learn
    /\ outcome.kind = "return"
    /\ outcome.status = "unsafe"
    /\ Len(outcome.learned) = 1

\* C10: in the smtlib2 dialect with a non-blank text that parses, unsat
\* gives safe / None, sat gives unsafe with the solver's answer text as
\* model, unknown gives unknown / None.
SolverOutcomeDecides ==
    (Called /\ call.timeout > 0 /\ call.dialect = "smtlib2" /\ Resolves
            /\ ~Blank(Resolved) /\ call.oracle.parse = "ok")
        => /\ outcome.kind = "return"
           /\ call.oracle.chk = "unsat"
                  => (outcome.status = "safe" /\ outcome.model = None)
           /\ call.oracle.chk = "sat"
                  => /\ outcome.status = "unsafe"
                     /\ outcome.model = Some(call.oracle.answer)
           /\ call.oracle.chk = "unknown"
                  => (outcome.status = "unknown" /\ outcome.model = None)

SolverSatSeen ==
    /\ call.variant = "colab-94"
    /\ call.dialect = "smtlib2"
    /\ call.oracle.chk = "sat"
    /\ call.oracle.answer # <<>>
    /\ outcome.status = "unsafe"
    /\ outcome.model = Some(call.oracle.answer)

\* C11: in the smtlib2 dialect, when the solver's parser raises on the
\* text, verify raises nothing and returns unknown / None / [], for both
\* values of learn.
ParseFailureIsUnknown ==
    (Called /\ ValidArgs /\ call.dialect = "smtlib2"
            /\ call.oracle.parse = "Z3Exception")
        => outcome = Unknown

ParseFailureSeen ==
    /\ call.variant = "colab-94"
    /\ call.dialect = "smtlib2"
    /\ call.learn
    /\ call.oracle.parse = "Z3Exception"
    /\ consulted = {"solver"}
    /\ outcome = Unknown

\* A colab-94 Datalog call with a positive timeout on a generated program.
RanDatalog ==
    /\ call.variant = "colab-94"
    /\ call.isProgram
    /\ call.dialect = "datalog"
    /\ call.timeout > 0

\* No declaration, no query, or a first query of an undeclared predicate.
Malformed ==
    \/ call.program.decls = {}
    \/ call.program.queries = <<>>
    \/ call.program.queries[1] \notin call.program.decls

\* C12: with a valid timeout and the datalog dialect verify never raises,
\* and a text with no declaration, with no query or with a query of an
\* undeclared predicate gives status unknown.
DatalogNeverRaises ==
    RanDatalog => /\ outcome.kind = "return"
                  /\ Malformed => outcome.status = "unknown"

\* The observer called by the i-th callback invocation.
Callee(i) == ent[calls[i].tok]

\* C13: within one set_measurements call the observers are called in
\* ascending priority value, and observers of equal priority in the order
\* in which they subscribed (the order of their tokens).
CalledInPriorityOrder ==
    \A i, j \in 1..Len(calls) :
        (i < j /\ calls[i].id = calls[j].id)
            => \/ Callee(i).priority < Callee(j).priority
               \/ /\ Callee(i).priority = Callee(j).priority
                  /\ calls[i].tok < calls[j].tok

CalledInPriorityOrderSeen ==
    /\ Len(calls) = 2
    /\ calls[1].id = calls[2].id
    /\ calls[1].tok = 2
    /\ calls[2].tok = 1
    /\ ent[1].priority = 2
    /\ ent[2].priority = 1

\* The callback invocations of the observer with token tok.
CallsOf(tok) == {i \in 1..Len(calls) : calls[i].tok = tok}

\* C14: an observer subscribed with once=True is called once and never
\* again, whatever set_measurements calls follow and however the calls of
\* several threads interleave.
OnceCalledOnce ==
    \A tok \in 1..Len(ent) :
        ent[tok].once => Cardinality(CallsOf(tok)) <= 1

Min(a, b) == IF a < b THEN a ELSE b

\* The set_measurements calls (by number) that called the observer tok.
SetsCalling(tok) == {calls[i].id : i \in CallsOf(tok)}

\* The object is at rest: no call of set_measurements is under way.
AtRest == \A t \in DOMAIN th : th[t].pc = "idle"

\* Called by exactly the first n set_measurements calls made after the
\* subscription, once each, and after the n-th unsubscribed and logged.
ServedFirst(tok, n) ==
    /\ SetsCalling(tok) \subseteq
           (ent[tok].since + 1)..(ent[tok].since + n)
    /\ Cardinality(CallsOf(tok)) = Cardinality(SetsCalling(tok))
    /\ AtRest =>
           /\ Cardinality(CallsOf(tok)) = Min(sets - ent[tok].since, n)
           /\ sets - ent[tok].since >= n
                  => /\ tok \notin Range(observers)
                     /\ <<"unsubscribe", tok>> \in Range(log)
           /\ sets - ent[tok].since < n => tok \in Range(observers)

\* Subscribed with ttl=N, N >= 1, as a function without filter.
WithTtl(tok) ==
    /\ ent[tok].hasTtl
    /\ ent[tok].given >= 1
    /\ ent[tok].filt = "none"
    /\ ~ent[tok].weak

\* C15: an observer subscribed with ttl=N (N >= 1, no filter, never
\* paused) is called by exactly the first N set_measurements calls after
\* its subscription and is then unsubscribed, "unsubscribe:<token>" being
\* logged.
TtlServesFirstN ==
    \A tok \in 1..Len(ent) :
        WithTtl(tok) => ServedFirst(tok, ent[tok].given)

\* C15 amended: the same for an observer subscribed with ttl=N and
\* once=False.
TtlNotOnceServesFirstN ==
    \A tok \in 1..Len(ent) :
        (WithTtl(tok) /\ ~ent[tok].once)
            => ServedFirst(tok, ent[tok].given)

TtlExpiredSeen ==
    /\ AtRest
    /\ Len(ent) = 1
    /\ ent[1].given = 1
    /\ ~ent[1].once
    /\ sets = 2
    /\ Len(calls) = 1
    /\ calls[1].id = 1
    /\ <<"unsubscribe", 1>> \in Range(log)

\* The log entries before position i that pause or resume.
Switches(i) == {j \in 1..(i - 1) : log[j][1] \in {"pause", "resume"}}

Latest(S) == CHOOSE j \in S : \A k \in S : k <= j

\* The log entry at position i was written between a pause() and the next
\* resume().
WhilePaused(i) ==
    /\ Switches(i) # {}
    /\ log[Latest(Switches(i))][1] = "pause"

\* The set_measurements calls (by number) made while paused.
SetsWhilePaused ==
    {log[i][2] : i \in {j \in 1..Len(log) :
                           log[j][1] = "set" /\ WhilePaused(j)}}

\* Subscribed as a function with neither once, ttl nor filter.
Plain(tok) ==
    /\ ~ent[tok].once
    /\ ~ent[tok].hasTtl
    /\ ent[tok].filt = "none"
    /\ ~ent[tok].weak

\* C16: no set_measurements call made between a pause() and the next
\* resume() invokes an observer, neither at once nor by resume() or a
\* later call (no replay); every invocation passes the values of the
\* set_measurements call that makes it, and the calls made while not
\* paused, the first after resume() among them, do invoke the observers.
PauseSuppresses ==
    /\ \A i \in 1..Len(calls) :
           /\ calls[i].id \notin SetsWhilePaused
           /\ calls[i].d = calls[i].arg
    /\ AtRest =>
           \A tok \in 1..Len(ent) :
               Plain(tok) =>
                   SetsCalling(tok)
                       = ((ent[tok].since + 1)..sets) \ SetsWhilePaused

ResumedSeen ==
    /\ AtRest
    /\ ~paused
    /\ Len(ent) = 1
    /\ Plain(1)
    /\ log = <<<<"subscribe", 1>>, <<"pause">>, <<"set", 1>>,
               <<"resume">>, <<"set", 2>>, <<"notify", 1>>>>
    /\ Len(calls) = 1
    /\ calls[1].id = 2
    /\ calls[1].d = 2

\* The observer's callback raises.
Raises(tok) == ent[tok].cb = "raises"

\* The "error:<token>:<exception>" entries of the log.
ErrorsOf(tok) ==
    {k \in 1..Len(log) : log[k] = <<"error", tok, "exc">>}

\* The set_measurements calls (by number) during which a callback raised.
SetsRaising ==
    {calls[i].id : i \in {j \in 1..Len(calls) : Raises(calls[j].tok)}}

\* C17: a callback that raises is logged as "error:<token>:<exception>",
\* once for each call; set_measurements goes on to the end of its loop, so
\* that every observer subscribed with neither once, ttl nor filter has
\* been called by every set_measurements call made since its subscription
\* when the call returns; and the observers called by a set_measurements
\* call during which a callback raised were called in priority order.
ExceptionIsolated ==
    /\ \A tok \in 1..Len(ent) :
           Raises(tok)
               => Cardinality(ErrorsOf(tok)) = Cardinality(CallsOf(tok))
    /\ AtRest =>
           \A tok \in 1..Len(ent) :
               Plain(tok)
                   => SetsCalling(tok) = (ent[tok].since + 1)..sets
    /\ \A i, j \in 1..Len(calls) :
           (i < j /\ calls[i].id = calls[j].id
                  /\ calls[i].id \in SetsRaising)
               => \/ ent[calls[i].tok].priority < ent[calls[j].tok].priority
                  \/ /\ ent[calls[i].tok].priority
                            = ent[calls[j].tok].priority
                     /\ ent[calls[i].tok].idx < ent[calls[j].tok].idx

ExceptionIsolatedSeen ==
    /\ AtRest
    /\ Len(ent) = 2
    /\ Raises(1)
    /\ ~Raises(2)
    /\ ent[2].priority > ent[1].priority
    /\ Len(calls) = 2
    /\ calls[1].tok = 1
    /\ calls[2].tok = 2
    /\ calls[1].id = calls[2].id
    /\ <<"error", 1, "exc">> \in Range(log)

\* The action is listed for the role in the configuration.
Listed(config, role, action) ==
    \E i \in 1..Len(config.v) :
        /\ config.v[i][1] = role
        /\ action \in Range(config.v[i][2].v)

\* The action is listed for the role by the most recent load that returned.
ListedInForce(role, action) ==
    /\ inForce # <<>>
    /\ Listed(inForce[1], role, action)

\* C18: is_action_allowed(role, action) returns True exactly when the
\* action is listed for the role in the configuration of the most recent
\* load_authorization_rules call that returned (False when there was
\* none); and after every call, a load that raised and a check among them,
\* the rules answer for that configuration.
RulesInForce ==
    /\ (last.op = "check" /\ last.result \in {"True", "False"})
           => (last.result = "True"
                   <=> ListedInForce(last.role, last.action))
    /\ \A role \in RoleValues, action \in ActionValues :
           (IsStr(role) /\ IsStr(action))
               => (IsActionAllowed(access_rules_data, role, action) = "True"
                       <=> ListedInForce(role, action))

RulesKeptSeen ==
    /\ last.op = "load"
    /\ last.result = "ValueError"
    /\ inForce # <<>>
    /\ ListedInForce(Str("admin"), Str("read"))
    /\ IsActionAllowed(access_rules_data, Str("admin"),
                       Str("read")) = "True"

\* The keys of the intervals listed as prerequisites of the interval key.
PrerequisitesOf(key) ==
    UNION {Range(args.dependencies[i][2]) :
               i \in {j \in 1..Len(args.dependencies) :
                          args.dependencies[j][1] = key}}

\* The interval key depends on itself through one or more prerequisites.
RECURSIVE Requires(_, _, _)
Requires(key, other, n) ==
    \/ other \in PrerequisitesOf(key)
    \/ /\ n > 1
       /\ \E mid \in PrerequisitesOf(key) : Requires(mid, other, n - 1)

\* The dependency relation contains a cycle.
Cyclic ==
    \E key \in KeysOf(args.intervals) :
        Requires(key, key, Cardinality(KeysOf(args.intervals)))

\* C19: when the dependency relation over the intervals contains a cycle,
\* a self-dependency included, max_active_students has a value on the
\* arguments, which is 0, and a call made on them has returned 0.
CycleReturnsZero ==
    Cyclic => /\ MaxActiveStudents(args.intervals, args.dependencies,
                                   args.query_times) = 0
              /\ returned # <<>> => returned = <<0>>

SelfDependencySeen ==
    /\ returned = <<0>>
    /\ args.intervals = <<<<0, <<<<0, 1>>>>>>, <<1, <<>>>>>>
    /\ args.dependencies = <<<<<<0, 0>>, <<<<0, 0>>>>>>>>
    /\ args.query_times = <<0>>

\* The interval of the key.
IntervalOf(key) ==
    LET i == CHOOSE j \in 1..Len(args.intervals) :
                 args.intervals[j][1] = key[1]
    IN  args.intervals[i][2][key[2] + 1]

\* The interval is active at the time t: t lies within it and all of its
\* prerequisites have ended by t.
ActiveAt(key, t) ==
    /\ IntervalOf(key)[1] <= t
    /\ t <= IntervalOf(key)[2]
    /\ \A p \in PrerequisitesOf(key) : IntervalOf(p)[2] <= t

\* The students with an interval active at the time t.
ActiveStudents(t) ==
    {key[1] : key \in {k \in KeysOf(args.intervals) : ActiveAt(k, t)}}

\* The largest number of students active at one of the query times.
MostActive ==
    LET counts == {Cardinality(ActiveStudents(t)) :
                       t \in Range(args.query_times)} \cup {0}
    IN  CHOOSE n \in counts : \A m \in counts : m <= n

Reversed(s) == [k \in 1..Len(s) |-> s[Len(s) + 1 - k]]

MalformedOperation(operation) ==
    \/ operation.py # "tuple"
    \/ operation.v = <<>>
    \/ operation.v[1] \notin {"filter", "map", "reduce"}
    \/ Len(operation.v) # 3

Piped == piped # NotPiped /\ job.file # "missing"

\* C21: process_csv_pipeline, called on a file that exists, raises
\* ValueError when an element of the operations list is malformed, wherever
\* it stands in the list.
MalformedRaisesValueError ==
    (Piped /\ \E i \in 1..Len(job.operations) :
                  MalformedOperation(job.operations[i]))
        => piped = PipeRaise("ValueError")

\* The values of the nodes of the tree at the depth d, the root being at 1.
RECURSIVE ValsAt(_, _)
ValsAt(tree, d) ==
    IF tree = Nil THEN {}
    ELSE IF d = 1 THEN {Val(tree)}
    ELSE ValsAt(Left(tree), d - 1) \cup ValsAt(Right(tree), d - 1)

\* The number of levels of the tree.
RECURSIVE Height(_)
Height(tree) ==
    IF tree = Nil THEN 0
    ELSE 1 + (IF Height(Left(tree)) > Height(Right(tree))
              THEN Height(Left(tree)) ELSE Height(Right(tree)))

Greatest(S) == CHOOSE x \in S : \A y \in S : y <= x

\* C22: the "output" slice returned by rowWiseMax is not nil, has one
\* element for each level of the tree and none for the nil root, and its
\* i-th element is the greatest value of the nodes at the depth i.
OutputIsRowWiseMax ==
    got # <<>>
        => /\ ~got[1].isNil
           /\ Len(got[1].elems) = Height(root)
           /\ \A i \in 1..Len(got[1].elems) :
                  got[1].elems[i] = Greatest(ValsAt(root, i))

\* Three levels of negative values, one of them twice on the second.
NegativeRowsSeen ==
    /\ root = Node(-1, Node(-2, Nil, Nil), Node(-2, Node(-1, Nil, Nil), Nil))
    /\ got = <<Slice(FALSE, <<-1, -2, -1>>)>>

\* The predicates queried after the first one, the first one apart.
LaterQueried(p) == Range(Tail(p.queries)) \ {p.queries[1]}

\* The program without its later queries and without the declarations and
\* rules of the predicates they name.
FirstQueryOnly(p) ==
    [queries |-> <<p.queries[1]>>, decls |-> p.decls \ LaterQueried(p),
     facts |-> p.facts \ LaterQueried(p),
     impls |-> p.impls \ LaterQueried(p)]

\* What the call returns for the text of the program p.
DatalogOutcome(p) ==
    Verify94(Render(p), call.dialect, call.timeout, call.learn,
             call.oracle).outcome

\* C23: when several predicates are queried, the status and the model are
\* those of the first queried predicate: they are what verify returns for
\* the program without the later queries and without the declarations and
\* rules of the predicates these name.
FirstQueryDecides ==
    (RanProgram /\ Len(call.program.queries) > 1)
        => /\ outcome.status =
                  DatalogOutcome(FirstQueryOnly(call.program)).status
           /\ outcome.model =
                  DatalogOutcome(FirstQueryOnly(call.program)).model

\* C24: every result record returned by verify has a status among safe,
\* unsafe and unknown, a model only with the status unsafe, and learned
\* entries only with learn=True and the status unsafe.
ResultRecordWellFormed ==
    (Called /\ outcome.kind = "return")
        => /\ outcome.status \in {"safe", "unsafe", "unknown"}
           /\ outcome.model # None => outcome.status = "unsafe"
           /\ outcome.learned # <<>>
                  => call.learn /\ outcome.status = "unsafe"

UnsafeRecordSeen ==
    /\ call.variant = "colab-94"
    /\ call.dialect = "smtlib2"
    /\ call.learn
    /\ outcome.kind = "return"
    /\ outcome.status = "unsafe"
    /\ outcome.model # None
    /\ outcome.learned # <<>>

====
